---- MODULE Spec2Model ----
(***************************************************************************)
(* Session orchestration and scheduling engine of SmartPoster:            *)
(* PostManager (post_manager.py), SessionManager (utils.py),              *)
(* AccountManager.login_account (account_manager.py) and                  *)
(* GroupManager.setup_driver (group_manager.py).                          *)
(*                                                                         *)
(* All coroutines run on one asyncio event loop, so a coroutine runs      *)
(* without interleaving from one await to the next: every action below is *)
(* the code between two consecutive awaits of one coroutine.  The remote  *)
(* site, the browser binary and the store are the environment: whether a  *)
(* driver call, a store call or a page check fails is chosen with \E.     *)
(***************************************************************************)
EXTENDS Integers, Sequences, FiniteSets, TLC

\* ---------------------------------------------------------------- bounds
NumAccounts == 2          \* accounts in the store
NumGroups   == 1          \* groups every account has joined
MaxTasks    == 3          \* asyncio worker / follow-up tasks alive at once
MaxHandles  == 3          \* browser instances tracked at once
MaxBatches  == 2          \* _post_content invocations tracked at once
MaxTime     == 2          \* minutes of wall clock that are explored
TimeBase    == 1438       \* first explored minute of the day (23:58)
MaxPosts    == 1          \* rows of scheduled_posts
MaxDispatched == 2        \* dispatches of one scheduled post that are counted
NumProxies  == 4          \* length of the config list "proxies"
MaxLogs     == 3          \* rows of the logs table with action "Login Failed"
MaxTarget   == 1          \* accounts named by the fb_id column of a scheduled post
max_sessions == 1         \* config "max_sessions" (valid range 1-10)
max_checks  == 1          \* auto_interact_with_comments(max_checks=10), scaled
max_retries == 2          \* config "max_retries" (valid range 1-10)

\* ------------------------------------------------------ program constants
MinutesPerDay == 1440     \* "%H:%M" runs from 00:00 to 23:59
log_limit == 10           \* get_logs(action="Login Failed", limit=10)
login_attempts == 3       \* @retry(..., stop=stop_after_attempt(3)) of login_account
allow_duplicates == FALSE \* post_all_content(allow_duplicates=False)

Accounts == 1..NumAccounts
Groups   == 1..NumGroups
Tasks    == 1..MaxTasks
Handles  == 1..MaxHandles
Batches  == 1..MaxBatches
Posts    == 1..MaxPosts
Callers  == {1}           \* concurrent post_all_content() calls of the UI

\* classes of the errors raised while a batch is being prepared: the store
\* raises (get_accounts, get_groups) / an account or group row is too short
FailureClasses == {"Transient", "MalformedInput"}

VARIABLES
    tk,            \* asyncio tasks: post_with_selenium / auto_interact_with_comments
    drivers,       \* SessionManager.drivers of app.session_manager: account -> handle
    handles,       \* browser instances: state and account key
    posted,        \* posted_groups set of each _post_content invocation
    pac,           \* post_all_content() calls: position, attempt, invocation
    stop_flag,     \* PostManager.stop_flag
    stale_use,     \* a driver method was invoked on a handle already quit
    invocations,   \* per call: number of _post_content invocations
    failures,      \* per call: number of invocations that raised
    delays,        \* per call: number of inter-attempt sleeps started
    classes,       \* per call: failure class of each failed invocation, in order
    retry_result,  \* per call: how the retry loop of lines 118-135 ended
    observed,      \* per call: what the awaiting caller observes
    loop_blocked,  \* the event-loop thread is blocked in a synchronous wait
    posts,         \* rows of scheduled_posts: status, time, target (fb_id column)
    now,           \* wall clock, in minutes ("%H:%M")
    sch,           \* PostManager.scheduler_task running _check_scheduled_posts
    dispatched,    \* per scheduled post: number of _post_content invocations for it
    prevented,     \* accounts whose worker was not started because the
                   \* preparation of another account of the batch raised
    am_drivers,    \* SessionManager.drivers of AccountManager.session_manager
    lb,            \* login_all_accounts() call: position
    lg,            \* login_account tasks of that call, one per account
    status,        \* accounts.status column of the store
    proxy_index,   \* SmartPosterApp.proxy_index: session key -> index (-1: absent)
    logs,          \* rows of the logs table with action "Login Failed", newest first
    selected,      \* the last call of a rotate_proxy and what it returned
    ban,           \* the last call of predictive_ban_detection: what it observed, its result
    last_update,   \* the update_account(fb_id, status=...) calls of the last login
                   \* step that made one, in order
    progress,      \* the last progressUpdated(k, total) signal the step just taken
                   \* emitted, after the signals (1, total) .. (k - 1, total)
    crypt,         \* the last call of encrypt_data, decrypt_data or add_accounts
    gb,            \* the invitation batch of add_members_to_group: workers, results, failure log
    lret           \* what the last login_all_accounts() call returned

vars == <<tk, drivers, handles, posted, pac, stop_flag, stale_use,
          invocations, failures, delays, classes, retry_result, observed,
          loop_blocked, posts, now, sch, dispatched, prevented,
          am_drivers, lb, lg, status, proxy_index, logs, selected,
                   ban, crypt, gb, last_update, progress, lret>>

\* ----------------------------------------------------------------- helpers
Min(S) == CHOOSE x \in S : \A y \in S : x <= y

RECURSIVE SortedSeq(_)
SortedSeq(S) == IF S = {} THEN <<>> ELSE <<Min(S)>> \o SortedSeq(S \ {Min(S)})

FreeTask == [kind |-> "free", acct |-> 0, pc |-> "none", driver |-> 0, d2 |-> 0,
             batch |-> 0, gath |-> FALSE, gi |-> 0, chk |-> 0]
FreeHandle == [st |-> "free", acct |-> 0]

NewTask(k, a, b, g) == [kind |-> k, acct |-> a, pc |-> "start", driver |-> 0, d2 |-> 0,
                        batch |-> b, gath |-> g, gi |-> 0, chk |-> 0]

\* a task whose coroutine has returned; kept until its gather collects it
DoneRec(r) == IF r.gath THEN [FreeTask EXCEPT !.kind = r.kind, !.acct = r.acct, !.pc = "done",
                                              !.batch = r.batch, !.gath = TRUE]
              ELSE FreeTask

FreeTasks   == {t \in Tasks : tk[t].kind = "free"}
FreeHandles == {h \in Handles : handles[h].st = "free"}

NoLogin == [pc |-> "none", tries |-> 0, waits |-> 0, driver |-> 0, gath |-> FALSE,
            kinds |-> {}, result |-> "none"]

Refs(tks) == {tks[t].driver : t \in Tasks} \cup {tks[t].d2 : t \in Tasks}
                \cup {lg[a].driver : a \in Accounts}

\* forget a quit browser once no coroutine holds a reference to it
GC(hs, tks) == [h \in Handles |->
                  IF hs[h].st = "released" /\ h \notin Refs(tks) THEN FreeHandle ELSE hs[h]]

\* an invocation of _post_content is tracked while one of its tasks exists
BatchInUse(b, tks) == \E t \in Tasks : tks[t].kind # "free" /\ tks[t].batch = b

GCp(p, tks) == [b \in Batches |-> IF BatchInUse(b, tks) THEN p[b] ELSE {}]

FreeBatches == {b \in Batches : ~BatchInUse(b, tk)}

AllKey == 0               \* the fb_id "all" of a task scheduled without a selection
NoSched == [pc |-> "none", list |-> <<>>, inv |-> 0, wake |-> 0, now |-> <<>>, err |-> "none"]

NoBan == [url |-> <<>>, raised |-> "none", marker |-> "unobserved", http |-> 0,
          result |-> "none"]
NoUpdate == <<>>
NoCrypt == [op |-> "none", cfg |-> "none", p |-> <<>>, raised |-> FALSE, out |-> <<>>]
NoProgress == [by |-> "none", k |-> 0, total |-> 0, batch |-> 0]
NotReturned == [returned |-> FALSE, accounts |-> {}]
NoGroupBatch == [pc |-> "none", owners |-> <<>>, results |-> <<>>, log |-> {}]
NoSelection == [by |-> "none", key |-> 0, prev |-> 0, fails |-> 0, len |-> 0, idx |-> -1]
NoPost  == [status |-> "none", time |-> <<>>, target |-> {}]

LiveHandles == {h \in Handles : handles[h].st = "live"}

\* ------------------------------------------------------------------- Init
Init ==
    /\ tk = [t \in Tasks |-> FreeTask]
    /\ drivers = [a \in Accounts |-> 0]
    /\ handles = [h \in Handles |-> FreeHandle]
    /\ posted = [b \in Batches |-> {}]
    /\ pac = [c \in Callers |-> [pc |-> "idle", attempt |-> 0, inv |-> 0, sel |-> {}]]
    /\ stop_flag = FALSE
    /\ stale_use = FALSE
    /\ invocations = [c \in Callers |-> 0]
    /\ failures = [c \in Callers |-> 0]
    /\ delays = [c \in Callers |-> 0]
    /\ classes = [c \in Callers |-> <<>>]
    /\ retry_result = [c \in Callers |-> "none"]
    /\ observed = [c \in Callers |-> "none"]
    /\ loop_blocked = FALSE
    /\ posts = [p \in Posts |-> NoPost]
    /\ now = 0
    /\ sch = NoSched
    /\ dispatched = [p \in Posts |-> 0]
    /\ prevented = {}
    /\ am_drivers = [a \in Accounts |-> 0]
    /\ lb = "idle"
    /\ lg = [a \in Accounts |-> NoLogin]
    /\ status = [a \in Accounts |-> "Not Logged In"]
    /\ proxy_index = [k \in Accounts |-> -1]
    /\ logs = <<>>
    /\ selected = NoSelection
    /\ ban = NoBan
    /\ last_update = NoUpdate
    /\ progress = NoProgress
    /\ lret = NotReturned
    /\ gb = NoGroupBatch
    /\ crypt = NoCrypt

\* ------------------------------------------------ SessionManager (utils.py)
\* get_driver: the live browser already registered for the key, else a new one
get_driver(a) == IF drivers[a] # 0 THEN drivers[a] ELSE Min(FreeHandles)

RegAfterGet(a) == [drivers EXCEPT ![a] = get_driver(a)]
HsAfterGet(a)  == [handles EXCEPT ![get_driver(a)] = [st |-> "live", acct |-> a]]

\* close_driver: quit and unregister whatever browser is registered for the key
close_driver(reg, hs, a) ==
    [reg |-> [reg EXCEPT ![a] = 0],
     hs  |-> IF reg[a] # 0 THEN [hs EXCEPT ![reg[a]].st = "released"] ELSE hs]

\* the coroutine of t holds a reference to a browser that was already quit
Stale(t) == tk[t].driver # 0 /\ handles[tk[t].driver].st # "live"

\* the event loop can resume a coroutine: the loop thread is not blocked and
\* no coroutine is between two awaits
LoopFree == ~loop_blocked /\ sch.pc \notin {"iter", "handler"}

Runnable(t) == LoopFree /\ tk[t].kind \in {"post", "auto"}

WorkerUnchanged == UNCHANGED <<pac, stop_flag, invocations, failures, delays, classes,
                               retry_result, observed, loop_blocked,
                               posts, now, sch, dispatched, prevented,
                               am_drivers, lb, lg, status, proxy_index, logs, selected,
                   ban, crypt, gb, last_update, lret>> /\ progress' = NoProgress

\* the coroutine of t returns; closes = its finally block sees driver # None
EndUnit(t, reg, hs, closes) ==
    LET a   == tk[t].acct
        c   == IF closes THEN close_driver(reg, hs, a) ELSE [reg |-> reg, hs |-> hs]
        tks == [tk EXCEPT ![t] = DoneRec(tk[t])]
    IN  /\ tk' = tks
        /\ drivers' = c.reg
        /\ handles' = GC(c.hs, tks)
        /\ posted' = GCp(posted, tks)

\* index of the next group the loop of post_with_selenium navigates to (0: none)
NextGroupIx(b, from) ==
    LET C == {g \in from..NumGroups : allow_duplicates \/ g \notin posted[b]}
    IN  IF C = {} THEN 0 ELSE Min(C)

\* top of "for group_id, group_name, _ in groups" from group index from on
PostLoopTop(t, from, hs, used) ==
    LET g == NextGroupIx(tk[t].batch, from) IN
    IF stop_flag \/ g = 0
    THEN /\ EndUnit(t, drivers, hs, TRUE)
         /\ stale_use' = (stale_use \/ used)
    ELSE IF Stale(t)
    THEN /\ EndUnit(t, drivers, hs, TRUE)          \* driver.get raises on a quit browser
         /\ stale_use' = TRUE
    ELSE \E raise \in BOOLEAN :
         /\ stale_use' = (stale_use \/ used)
         /\ IF raise
            THEN EndUnit(t, drivers, hs, TRUE)
            ELSE /\ tk' = [tk EXCEPT ![t].pc = "g_nav", ![t].gi = g, ![t].d2 = 0]
                 /\ handles' = GC(hs, tk')
                 /\ UNCHANGED <<drivers, posted>>

\* top of "for _ in range(max_checks)" of auto_interact_with_comments
AutoLoopTop(t, n, hs, used) ==
    IF stop_flag \/ n >= max_checks
    THEN /\ EndUnit(t, drivers, hs, TRUE)
         /\ stale_use' = (stale_use \/ used)
    ELSE IF Stale(t)
    THEN /\ EndUnit(t, drivers, hs, TRUE)
         /\ stale_use' = TRUE
    ELSE \E raise \in BOOLEAN :
         /\ stale_use' = (stale_use \/ used)
         /\ IF raise
            THEN EndUnit(t, drivers, hs, TRUE)
            ELSE /\ tk' = [tk EXCEPT ![t].pc = "a_nav", ![t].chk = n, ![t].d2 = 0]
                 /\ handles' = GC(hs, tk')
                 /\ UNCHANGED <<drivers, posted>>

\* _verify_cookies returned True: the unit of work goes on with its own loop
Proceed(t, hs, used) ==
    IF tk[t].kind = "post" THEN PostLoopTop(t, 1, hs, used) ELSE AutoLoopTop(t, 0, hs, used)

\* post_with_selenium 233-238 / auto_interact_with_comments 332-337, up to the
\* first await (asyncio.sleep(2) in _verify_cookies)
UnitStart(t) ==
    /\ Runnable(t) /\ tk[t].pc = "start"
    /\ WorkerUnchanged
    /\ UNCHANGED stale_use
    /\ LET a == tk[t].acct IN
       \E o \in {"raise_pre", "raise_cookies", "ok"} :
         IF o = "raise_pre"                     \* _get_chrome_options / get_driver raises
         THEN EndUnit(t, drivers, handles, FALSE)
         ELSE /\ (drivers[a] = 0 => FreeHandles # {})
              /\ IF o = "raise_cookies"         \* load_cookies raises: return False, finally
                 THEN EndUnit(t, RegAfterGet(a), HsAfterGet(a), TRUE)
                 ELSE /\ tk' = [tk EXCEPT ![t].pc = "verify", ![t].driver = get_driver(a)]
                      /\ drivers' = RegAfterGet(a)
                      /\ handles' = HsAfterGet(a)
                      /\ UNCHANGED posted

\* _verify_cookies 493-509 after the sleep: the cookies are valid, or the
\* account is re-authenticated by a login_account of a new AccountManager,
\* which owns a SessionManager (and so a browser) of its own
UnitVerified(t) ==
    /\ Runnable(t) /\ tk[t].pc = "verify"
    /\ WorkerUnchanged
    /\ IF Stale(t)
       THEN /\ EndUnit(t, drivers, handles, TRUE)   \* driver.current_url raises
            /\ stale_use' = TRUE
       ELSE \E o \in {"valid", "no_account", "login_raise", "reauth"} :
            CASE o = "valid" -> Proceed(t, handles, FALSE)
              [] o \in {"no_account", "login_raise"} ->
                     /\ EndUnit(t, drivers, handles, TRUE)
                     /\ UNCHANGED stale_use
              [] o = "reauth" ->
                     /\ FreeHandles # {}
                     /\ LET h2 == Min(FreeHandles) IN
                        /\ tk' = [tk EXCEPT ![t].pc = "reauth", ![t].d2 = h2]
                        /\ handles' = [handles EXCEPT ![h2] = [st |-> "live", acct |-> tk[t].acct]]
                     /\ UNCHANGED <<drivers, posted, stale_use>>

\* the nested login_account returns (its finally quits its own browser); on
\* success _verify_cookies reads driver.get_cookies() of the outer browser
UnitReauthDone(t) ==
    /\ Runnable(t) /\ tk[t].pc = "reauth"
    /\ WorkerUnchanged
    /\ LET hs == [handles EXCEPT ![tk[t].d2].st = "released"] IN
       \E ok \in BOOLEAN :
         IF ~ok
         THEN /\ EndUnit(t, drivers, hs, TRUE)
              /\ UNCHANGED stale_use
         ELSE IF Stale(t)
         THEN /\ EndUnit(t, drivers, hs, TRUE)
              /\ stale_use' = TRUE
         ELSE \E raise \in BOOLEAN :               \* get_cookies / update_account raises
              IF raise
              THEN /\ EndUnit(t, drivers, hs, TRUE)
                   /\ UNCHANGED stale_use
              ELSE Proceed(t, hs, FALSE)

\* post_with_selenium 249-263: write the post, click, record the group
PostGroupNav(t) ==
    /\ Runnable(t) /\ tk[t].kind = "post" /\ tk[t].pc = "g_nav"
    /\ WorkerUnchanged
    /\ IF Stale(t)
       THEN /\ EndUnit(t, drivers, handles, TRUE)
            /\ stale_use' = TRUE
       ELSE /\ UNCHANGED stale_use
            /\ \E raise \in BOOLEAN :
               IF raise
               THEN EndUnit(t, drivers, handles, TRUE)
               ELSE /\ tk' = [tk EXCEPT ![t].pc = "g_posted"]
                    /\ posted' = [posted EXCEPT ![tk[t].batch] = @ \cup {tk[t].gi}]
                    /\ UNCHANGED <<drivers, handles>>

\* post_with_selenium 264-272: look the post up, start the follow-up task
PostGroupPosted(t) ==
    /\ Runnable(t) /\ tk[t].kind = "post" /\ tk[t].pc = "g_posted"
    /\ WorkerUnchanged
    /\ IF Stale(t)
       THEN /\ EndUnit(t, drivers, handles, TRUE)
            /\ stale_use' = TRUE
               ELSE /\ UNCHANGED stale_use
            /\ \E o \in {"raise", "no_url", "auto_reply"} :
               CASE o = "raise" -> EndUnit(t, drivers, handles, TRUE)
                 [] o = "no_url" ->
                      /\ tk' = [tk EXCEPT ![t].pc = "g_delay"]
                      /\ UNCHANGED <<drivers, handles, posted>>
                 [] o = "auto_reply" ->
                      /\ FreeTasks # {}
                      /\ tk' = [tk EXCEPT ![t].pc = "g_delay",
                                          ![Min(FreeTasks)] = NewTask("auto", tk[t].acct, 0, FALSE)]
                      /\ UNCHANGED <<drivers, handles, posted>>

\* post_with_selenium 272: the inter-post sleep is over, next group
PostGroupDelay(t) ==
    /\ Runnable(t) /\ tk[t].kind = "post" /\ tk[t].pc = "g_delay"
    /\ WorkerUnchanged
    /\ PostLoopTop(t, tk[t].gi + 1, handles, FALSE)

\* auto_interact_with_comments 355-389: likes and replies on the post page
AutoInteract(t) ==
    /\ Runnable(t) /\ tk[t].kind = "auto" /\ tk[t].pc = "a_nav"
    /\ WorkerUnchanged
    /\ IF Stale(t)
       THEN /\ EndUnit(t, drivers, handles, TRUE)
            /\ stale_use' = TRUE
       ELSE /\ UNCHANGED stale_use
            /\ \E raise \in BOOLEAN :
               IF raise
               THEN EndUnit(t, drivers, handles, TRUE)
               ELSE /\ tk' = [tk EXCEPT ![t].pc = "a_wait"]
                    /\ UNCHANGED <<drivers, handles, posted>>

\* auto_interact_with_comments 389: check_interval is over, next check
AutoWait(t) ==
    /\ Runnable(t) /\ tk[t].kind = "auto" /\ tk[t].pc = "a_wait"
    /\ WorkerUnchanged
    /\ AutoLoopTop(t, tk[t].chk + 1, handles, FALSE)


\* ------------------------------------------ PostManager.post_all_content
\* "if attempt < max_retries - 1: ... sleep ... else: ... raise" (line 128)
IsLastAttempt(att) == ~(att < max_retries - 1)

CallerUnchanged == UNCHANGED <<drivers, handles, stop_flag, stale_use, loop_blocked,
                               posts, now, sch, dispatched, am_drivers, lb, lg, status, proxy_index, logs, selected,
                   ban, crypt, gb, last_update, lret>>


\* _post_content (lines 181-223) has no await before its gather, so reading
\* the accounts, preparing each account and creating its task is one step.
\* With n selected accounts an outcome is <<k, cls, at>>: k tasks were created
\* and cls is the class of the error raised by get_accounts (at = "store") or
\* while preparing account k+1 (at = "account": get_groups, a short account
\* row, _get_chrome_options); cls = "none": no error, and the loop breaks at
\* once when stop_flag is set.
PrepOutcomes(n) ==
    {o \in (0..n) \X (FailureClasses \cup {"none"}) \X {"store", "account"} :
        /\ o[2] = "none" => (o[1] = (IF stop_flag THEN 0 ELSE n) /\ o[3] = "store")
        /\ o[3] = "store" /\ o[2] # "none" => (o[1] = 0 /\ o[2] = "Transient")
        /\ o[3] = "account" => (~stop_flag /\ o[1] < n)
        /\ o[1] <= Cardinality(FreeTasks)
        /\ o[1] > 0 => FreeBatches # {}}

\* accounts of sel after the one whose preparation raised
Skipped(sel, o) ==
    IF o[3] = "account" THEN {SortedSeq(sel)[i] : i \in (o[1] + 2)..Cardinality(sel)} ELSE {}

PCBatch(k) == IF k > 0 THEN Min(FreeBatches) ELSE 0

\* asyncio.create_task(self.post_with_selenium(...)) for the first k accounts of
\* sel; the tasks are awaited by the gather only when the preparation did not raise
PCTasks(sel, k, gath) ==
    LET S == SortedSeq(sel)
        F == SortedSeq(FreeTasks)
    IN  [t \in Tasks |->
           IF \E i \in 1..k : F[i] = t
           THEN NewTask("post", S[CHOOSE i \in 1..k : F[i] = t], PCBatch(k), gath)
           ELSE tk[t]]

\* _post_content 198-222: progressUpdated(i + 1, total) is emitted right after
\* the task of account i + 1 is created; total is the number of accounts (no
\* group is selected); k tasks were created, for the batch PCBatch(k)
Reported(k, total) ==
    IF k = 0 THEN NoProgress
    ELSE [by |-> "post", k |-> k, total |-> total, batch |-> PCBatch(k)]

\* One invocation of _post_content by post_all_content call c on attempt att
\* (lines 118-135)
InvokePostContent(c, sel, att) ==
    \E o \in PrepOutcomes(Cardinality(sel)) :
      LET k    == o[1]
          cls  == o[2]
          tks  == PCTasks(sel, k, cls = "none")
          npc  == IF cls = "none" THEN (IF k = 0 THEN "done" ELSE "gather")
                  ELSE IF IsLastAttempt(att) THEN "done" ELSE "retry_sleep"
      IN
         /\ tk' = tks
         /\ progress' = Reported(k, Cardinality(sel))
         /\ pac' = [pac EXCEPT ![c] = [pc |-> npc, attempt |-> att,
                                      inv |-> IF npc = "gather" THEN PCBatch(k) ELSE 0,
                                      sel |-> IF npc = "done" THEN {} ELSE sel]]
         /\ posted' = GCp(posted, tks)
         /\ prevented' = prevented \cup Skipped(sel, o)
         /\ invocations' = [invocations EXCEPT ![c] = @ + 1]
         /\ failures' = [failures EXCEPT ![c] = IF cls = "none" THEN @ ELSE @ + 1]
         /\ classes' = [classes EXCEPT ![c] = IF cls = "none" THEN @ ELSE Append(@, cls)]
         /\ delays' = [delays EXCEPT ![c] = IF npc = "retry_sleep" THEN @ + 1 ELSE @]
         /\ retry_result' = [retry_result EXCEPT ![c] =
                               IF npc = "done"
                               THEN (IF cls = "none" THEN "ok" ELSE "exhausted")
                               ELSE @]
         \* line 135 re-raises into the handler of line 143, which logs and returns
         /\ observed' = [observed EXCEPT ![c] = IF npc = "done" THEN "return_None" ELSE @]

\* post_all_content(schedule_times="") is called: lines 93-126, first attempt
CallStart(c) ==
    /\ LoopFree /\ pac[c].pc = "idle"
    /\ CallerUnchanged
    /\ \E n \in Accounts : InvokePostContent(c, 1..n, 0)

\* line 131: the inter-attempt sleep is over, next iteration of range(max_retries)
RetryWake(c) ==
    /\ LoopFree /\ pac[c].pc = "retry_sleep"
    /\ CallerUnchanged
    /\ IF pac[c].attempt + 1 < max_retries
       THEN InvokePostContent(c, pac[c].sel, pac[c].attempt + 1)
       ELSE /\ pac' = [pac EXCEPT ![c] = [pc |-> "done", attempt |-> @.attempt + 1,
                                          inv |-> 0, sel |-> {}]]
            /\ retry_result' = [retry_result EXCEPT ![c] = "fell_through"]
            /\ progress' = NoProgress
            /\ observed' = [observed EXCEPT ![c] = "return_None"]
            /\ UNCHANGED <<tk, posted, invocations, failures, classes, delays, prevented>>

\* lines 223-226 and 126, 136-142: every task of the gather is done
GatherDone(c) ==
    /\ LoopFree /\ pac[c].pc = "gather"
    /\ \A t \in Tasks : (tk[t].gath /\ tk[t].batch = pac[c].inv) => tk[t].pc = "done"
    /\ CallerUnchanged
    /\ LET tks  == [t \in Tasks |->
                      IF tk[t].gath /\ tk[t].batch = pac[c].inv THEN FreeTask ELSE tk[t]]
           pacs == [pac EXCEPT ![c] = [pc |-> "done", attempt |-> @.attempt,
                                       inv |-> 0, sel |-> {}]]
       IN /\ tk' = tks
          /\ pac' = pacs
          /\ posted' = GCp(posted, tks)
    /\ retry_result' = [retry_result EXCEPT ![c] = "ok"]
    /\ observed' = [observed EXCEPT ![c] = "return_None"]
    /\ progress' = NoProgress
    /\ UNCHANGED <<invocations, failures, classes, delays, prevented>>

\* ------------------------------------- PostManager._check_scheduled_posts
SchedUnchanged == UNCHANGED <<pac, stop_flag, stale_use, invocations, failures, delays,
                              classes, retry_result, observed, loop_blocked, now,
                              am_drivers, lb, lg, status, proxy_index, logs, selected,
                   ban, crypt, gb, last_update, lret>>


\* datetime.now().strftime("%H:%M") at minute t of the model's clock: the
\* characters of the zero-padded string as code points ("0" is 48, ":" is 58)
strftime(t) ==
    LET m  == (TimeBase + t) % MinutesPerDay
        h  == m \div 60
        mi == m % 60
    IN  <<48 + (h \div 10), 48 + (h % 10), 58, 48 + (mi \div 10), 48 + (mi % 10)>>

\* a < b on two str values: the first differing character decides, a proper
\* prefix is smaller
StrLess(a, b) ==
    \/ \E i \in 1..Len(a) :
         /\ i <= Len(b)
         /\ \A j \in 1..(i - 1) : a[j] = b[j]
         /\ a[i] < b[i]
    \/ /\ Len(a) < Len(b)
       /\ \A j \in 1..Len(a) : a[j] = b[j]

\* time strings that pass re.match(r"^\d{2}:\d{2}$") at lines 103 and 465
InputTimes == {strftime(t) : t \in 0..MaxTime}

\* every Pending row, whatever its time
PendingAnyTime(ps, t) == {p \in Posts : ps[p].status = "Pending"}

\* rows the "for post in scheduled_posts" loop does not skip (line 157), in the
\* order of "ORDER BY time ASC"; now is the string computed at line 153
DuePending(ps, t) == {p \in Posts : ps[p].status = "Pending" /\ ~StrLess(t, ps[p].time)}

RECURSIVE ByTime(_, _)
ByTime(ps, S) ==
    IF S = {} THEN <<>>
    ELSE LET p == CHOOSE x \in S : \A y \in S :
                     StrLess(ps[x].time, ps[y].time) \/ (ps[x].time = ps[y].time /\ x <= y)
         IN  <<p>> \o ByTime(ps, S \ {p})

\* "await asyncio.sleep(60)" of lines 169 and 173
SchedSleep == [NoSched EXCEPT !.pc = "sleep", !.wake = 1]

\* an exception reaches "except Exception as e" of line 170; err says where it
\* was raised, rest are the rows from the one being processed on
SchedFailed(err, rest) == [NoSched EXCEPT !.pc = "handler", !.err = err, !.list = rest]

\* the fb_id column of a scheduled post: "all", or the selected accounts
Targets == {{AllKey}} \cup {1..n : n \in 1..MaxTarget}

\* a test of line 115 that finds no task whatever the slot holds
NeverAlive(s) == FALSE

\* line 115: scheduler_task holds a task that is not done
LoopAlive(s) == s.pc \notin {"none", "ended"}

\* post_all_content(schedule_times=tm): lines 99-116 add the row and start the
\* scheduler task unless one exists that is not done
ScheduleRequest ==
    /\ LoopFree
    /\ \E p \in Posts, tm \in InputTimes, target \in Targets :
         /\ posts[p].status = "none"
         /\ \A q \in Posts : q < p => posts[q].status # "none"
         /\ posts' = [posts EXCEPT ![p] = [status |-> "Pending", time |-> tm, target |-> target]]
         /\ sch' = IF LoopAlive(sch) THEN sch ELSE [NoSched EXCEPT !.pc = "ready"]
    /\ UNCHANGED <<tk, drivers, handles, posted, pac, stop_flag, stale_use, invocations,
                   failures, delays, classes, retry_result, observed, loop_blocked, now,
                   dispatched, prevented, am_drivers, lb, lg, status,
                   proxy_index, logs, selected,
                   ban, crypt, gb, last_update, lret>> /\ progress' = NoProgress

\* the clock advances by one minute ("%H:%M" wraps at midnight); a coroutine
\* in asyncio.sleep(60) becomes ready to run
Tick ==
    /\ now' = (now + 1) % (MaxTime + 1)
    /\ sch' = IF sch.pc = "sleep" THEN [sch EXCEPT !.wake = 0] ELSE sch
    /\ UNCHANGED <<tk, drivers, handles, posted, pac, stop_flag, stale_use, invocations,
                   failures, delays, classes, retry_result, observed, loop_blocked, posts,
                   dispatched, prevented, am_drivers, lb, lg, status,
                   proxy_index, logs, selected,
                   ban, crypt, gb, last_update, lret>> /\ progress' = NoProgress

\* lines 151-154: top of "while not self.stop_flag", reading the clock and the rows
SchedPoll ==
    /\ LoopFree
    /\ sch.pc = "ready" \/ (sch.pc = "sleep" /\ sch.wake = 0)
    /\ SchedUnchanged /\ progress' = NoProgress
    /\ UNCHANGED <<tk, drivers, handles, posted, posts, dispatched, prevented>>
    /\ IF stop_flag
       THEN sch' = [NoSched EXCEPT !.pc = "ended"]
       ELSE \E raise \in BOOLEAN :              \* get_scheduled_posts raises
              sch' = IF raise
                     THEN SchedFailed("poll", <<>>)
                     ELSE [NoSched EXCEPT !.pc = "iter", !.now = strftime(now),
                                          !.list = ByTime(posts, DuePending(posts, strftime(now)))]

\* line 167: update_scheduled_post_status(post_id, "Posted"); the store may raise
MarkPosted(p, rest) ==
    \E raise \in BOOLEAN :
      IF raise
      THEN /\ sch' = SchedFailed("mark", <<p>> \o rest)
           /\ UNCHANGED posts
      ELSE /\ posts' = [posts EXCEPT ![p].status = "Posted"]
           /\ sch' = [sch EXCEPT !.pc = "iter", !.list = rest, !.inv = 0]

\* lines 155-169: the next row of the loop is dispatched to _post_content
SchedIter ==
    /\ ~loop_blocked /\ sch.pc = "iter"
    /\ SchedUnchanged
    /\ UNCHANGED <<drivers, handles>>
    /\ IF sch.list = <<>>
       THEN /\ sch' = SchedSleep
            /\ progress' = NoProgress
            /\ UNCHANGED <<tk, posted, posts, dispatched, prevented>>
       ELSE LET p   == Head(sch.list)
                sel == posts[p].target \cap Accounts
            IN
            \E o \in PrepOutcomes(Cardinality(sel)) :
              LET k   == o[1]
                  cls == o[2]
                  tks == PCTasks(sel, k, cls = "none")
              IN
              /\ tk' = tks
              /\ progress' = Reported(k, Cardinality(sel))
              /\ posted' = GCp(posted, tks)
              /\ dispatched' = [dispatched EXCEPT ![p] = IF @ < MaxDispatched THEN @ + 1 ELSE @]
              /\ prevented' = prevented \cup Skipped(sel, o)
              /\ IF cls # "none"
                 THEN /\ sch' = SchedFailed("batch", sch.list)
                      /\ UNCHANGED posts
                 ELSE IF k = 0
                 THEN MarkPosted(p, Tail(sch.list))       \* returned at once
                 ELSE /\ sch' = [sch EXCEPT !.pc = "gather", !.inv = PCBatch(k)]
                      /\ UNCHANGED posts

\* lines 223-226 and 167-168: the gather of the dispatched batch is over
SchedGatherDone ==
    /\ LoopFree /\ sch.pc = "gather"
    /\ \A t \in Tasks : (tk[t].gath /\ tk[t].batch = sch.inv) => tk[t].pc = "done"
    /\ SchedUnchanged /\ progress' = NoProgress
    /\ UNCHANGED <<drivers, handles, dispatched, prevented>>
    /\ LET tks == [t \in Tasks |->
                     IF tk[t].gath /\ tk[t].batch = sch.inv THEN FreeTask ELSE tk[t]]
       IN /\ tk' = tks
          /\ posted' = GCp(posted, tks)
    /\ MarkPosted(Head(sch.list), Tail(sch.list))

\* the exception leaves the coroutine: the scheduler task is over
SchedHandlerEnds ==
    /\ ~loop_blocked /\ sch.pc = "handler"
    /\ SchedUnchanged /\ progress' = NoProgress
    /\ UNCHANGED <<tk, drivers, handles, posted, posts, dispatched, prevented>>
    /\ sch' = [NoSched EXCEPT !.pc = "ended"]

\* lines 170-173: the handler logs the error and sleeps; the while loop goes on
SchedHandler ==
    /\ ~loop_blocked /\ sch.pc = "handler"
    /\ SchedUnchanged /\ progress' = NoProgress
    /\ UNCHANGED <<tk, drivers, handles, posted, posts, dispatched, prevented>>
    /\ sch' = SchedSleep

\* schedule_post 458-486: the row is added; the scheduler task is not looked at
schedule_post ==
    /\ LoopFree
    /\ \E p \in Posts, tm \in InputTimes, a \in 1..MaxTarget :
         /\ posts[p].status = "none"
         /\ \A q \in Posts : q < p => posts[q].status # "none"
         /\ posts' = [posts EXCEPT ![p] = [status |-> "Pending", time |-> tm, target |-> {a}]]
    /\ UNCHANGED <<tk, drivers, handles, posted, pac, stop_flag, stale_use, invocations,
                   failures, delays, classes, retry_result, observed, loop_blocked, now,
                   sch, dispatched, prevented, am_drivers, lb, lg, status,
                   proxy_index, logs, selected,
                   ban, crypt, gb, last_update, lret>> /\ progress' = NoProgress

\* tasks the gather of the scheduler's _post_content is waiting for
SchedChildren == {t \in Tasks : sch.inv # 0 /\ tk[t].gath /\ tk[t].batch = sch.inv}

\* the flag alone is set, no task is cancelled
set_stop_flag ==
    /\ LoopFree
    /\ stop_flag' = TRUE
    /\ UNCHANGED <<tk, drivers, handles, posted, pac, stale_use, invocations, failures, delays,
                   classes, retry_result, observed, loop_blocked, posts, now, sch, dispatched,
                   prevented, am_drivers, lb, lg, status, proxy_index, logs, selected,
                   ban, crypt, gb, last_update, lret>> /\ progress' = NoProgress

\* stop_posting 400-403: the flag is set and scheduler_task.cancel() is called
\* when the task is not done; cancelling a task that waits in a gather cancels
\* the tasks of the gather that are not done
stop_posting ==
    /\ LoopFree
    /\ stop_flag' = TRUE
    /\ IF sch.pc \in {"ready", "sleep", "gather"}
       THEN /\ sch' = [sch EXCEPT !.pc = "cancelling"]
            /\ tk' = [t \in Tasks |->
                        IF t \in SchedChildren /\ tk[t].pc # "done"
                        THEN [tk[t] EXCEPT !.pc = IF @ = "start" THEN "unstarted" ELSE "cancelled"]
                        ELSE tk[t]]
       ELSE UNCHANGED <<sch, tk>>
    /\ UNCHANGED <<drivers, handles, posted, pac, stale_use, invocations, failures, delays,
                   classes, retry_result, observed, loop_blocked, posts, now, dispatched,
                   prevented, am_drivers, lb, lg, status, proxy_index, logs, selected,
                   ban, crypt, gb, last_update, lret>> /\ progress' = NoProgress

\* resume_publishing (ui_design.py): the flag is cleared
resume_publishing ==
    /\ LoopFree
    /\ stop_flag
    /\ stop_flag' = FALSE
    /\ UNCHANGED <<tk, drivers, handles, posted, pac, stale_use, invocations, failures,
                   delays, classes, retry_result, observed, loop_blocked, posts, now, sch,
                   dispatched, prevented, am_drivers, lb, lg, status,
                   proxy_index, logs, selected,
                   ban, crypt, gb, last_update, lret>> /\ progress' = NoProgress

\* CancelledError is thrown into a cancelled worker at its await: no handler of
\* post_with_selenium catches it, its finally block runs (lines 279-281); a
\* worker cancelled before its first step never runs.  A nested login_account
\* closes its own browser on the way out.
UnitCancelled(t) ==
    /\ LoopFree /\ tk[t].pc \in {"unstarted", "cancelled"}
    /\ WorkerUnchanged
    /\ UNCHANGED stale_use
    /\ LET hs == IF tk[t].d2 # 0 THEN [handles EXCEPT ![tk[t].d2].st = "released"]
                 ELSE handles
       IN  EndUnit(t, drivers, hs, tk[t].driver # 0)

\* CancelledError reaches _check_scheduled_posts at its await (the sleep, or the
\* gather once its tasks are done): "except Exception" does not catch it
SchedCancelled ==
    /\ LoopFree /\ sch.pc = "cancelling"
    /\ \A t \in SchedChildren : tk[t].pc = "done"
    /\ SchedUnchanged /\ progress' = NoProgress
    /\ UNCHANGED <<drivers, handles, posts, dispatched, prevented>>
    /\ LET tks == [t \in Tasks |-> IF t \in SchedChildren THEN FreeTask ELSE tk[t]]
       IN /\ tk' = tks
          /\ posted' = GCp(posted, tks)
    /\ sch' = [NoSched EXCEPT !.pc = "ended"]

\* ------------------------------------------ AccountManager (login batch)
LoginUnchanged == UNCHANGED <<tk, drivers, posted, pac, stop_flag, stale_use, invocations,
                              failures, delays, classes, retry_result, observed,
                              loop_blocked, posts, now, sch, dispatched,
                              proxy_index, logs, selected, ban, crypt, gb>>

\* the values the CHECK constraint of accounts.status admits
AcceptedStatus == {"Not Logged In", "Logged In", "Banned"}

\* a store that would admit any status
AnyStatusStored(s) == BOOLEAN

\* whether update_account(fb_id, status=s) raises: always when the CHECK
\* constraint rejects s (the UPDATE fails and update_account re-raises),
\* possibly when it admits s (sqlite3.OperationalError)
UpdateRaises(s) == IF s \in AcceptedStatus THEN BOOLEAN ELSE {TRUE}

\* one call update_account(a, status=s) and whether the store took it
UpdateCall(a, s, raises) == [acct |-> a, status |-> s, accepted |-> ~raises]

\* login_all_accounts 123-150 (login_mode "Selenium"): read the accounts and
\* create one login_account task per account, up to the gather.  k < NumAccounts:
\* reading the row of account k+1 raised, the handler of line 163 returns [] and
\* the k tasks already created run on without being awaited.  db_error: the
\* store raises or returns no account, [] is returned.
login_all_accounts ==
    /\ LoopFree /\ lb = "idle"
    /\ LoginUnchanged
    /\ UNCHANGED <<handles, am_drivers, status, last_update>>
    /\ progress' = NoProgress
    /\ \E db_error \in BOOLEAN, k \in 0..NumAccounts :
         IF db_error
         THEN /\ k = 0
              /\ lb' = "done"
              /\ lret' = [returned |-> TRUE, accounts |-> {}]
              /\ UNCHANGED <<lg, prevented>>
         ELSE /\ lb' = IF k = NumAccounts THEN "gather" ELSE "done"
              /\ lret' = IF k = NumAccounts THEN lret
                         ELSE [returned |-> TRUE, accounts |-> {}]
              /\ lg' = [a \in Accounts |->
                          IF a <= k THEN [NoLogin EXCEPT !.pc = "start",
                                                         !.gath = (k = NumAccounts)]
                          ELSE lg[a]]
              /\ prevented' = prevented \cup {a \in Accounts : a > k + 1}

\* tenacity: what @retry does with the way one invocation of login_account
\* ended (out: "True", "False" or "raise"); kind: failure class of the attempt.
\* reg, hs: registry and browsers after the finally block of the invocation.
AttemptEnd(a, reg, hs, out, kind) ==
    LET r   == [lg[a] EXCEPT !.driver = 0,
                             !.kinds = IF kind = "none" THEN @ ELSE @ \cup {kind}]
        lgs == [lg EXCEPT ![a] =
                  IF out = "raise" /\ r.tries < login_attempts
                  THEN [r EXCEPT !.pc = "l_retry_wait", !.waits = @ + 1]
                  ELSE [r EXCEPT !.pc = "done",
                                 !.result = IF out = "raise" THEN "RetryError" ELSE out]]
    IN  /\ lg' = lgs
        /\ am_drivers' = reg
        /\ handles' = [h \in Handles |->
                         IF hs[h].st = "released" /\ h \notin Refs(tk) \ {lg[a].driver}
                         THEN FreeHandle ELSE hs[h]]

\* lines 226-235: "except Exception" calls update_account with the status
\* "Login Failed: <exception>" and returns False unless that call raises;
\* "finally" closes the browser if one was created.  calls: the update_account
\* calls the invocation made before the handler; kind: class of the failure.
LoginHandler(a, reg, hs, has_driver, kind, calls) ==
    LET c == IF has_driver THEN close_driver(reg, hs, a) ELSE [reg |-> reg, hs |-> hs] IN
    \E store_raises \in UpdateRaises("Login Failed") :
      /\ last_update' = calls \o <<UpdateCall(a, "Login Failed", store_raises)>>
      /\ IF store_raises
         THEN /\ AttemptEnd(a, c.reg, c.hs, "raise", kind)
              /\ UNCHANGED status
         ELSE /\ AttemptEnd(a, c.reg, c.hs, "False", kind)
              /\ status' = [status EXCEPT ![a] = "Login Failed"]

AmRegAfterGet(a) == [am_drivers EXCEPT ![a] = Min(FreeHandles)]

\* login_account 171-188: one invocation starts (first call, or tenacity calls
\* again after wait_fixed(2)); up to the sleep that follows driver.get
LoginStart(a) ==
    /\ LoopFree /\ lg[a].pc \in {"start", "l_retry_wait"}
    /\ LoginUnchanged
    /\ UNCHANGED <<lb, prevented, lret>> /\ progress' = NoProgress
    /\ LET me == [lg EXCEPT ![a].tries = @ + 1] IN
       \E o \in {"raise_driver", "no_account", "raise", "ok"} :
         IF o = "raise_driver"                         \* get_driver raises
         THEN \E store_raises \in UpdateRaises("Login Failed") :
                /\ last_update' = <<UpdateCall(a, "Login Failed", store_raises)>>
                /\ lg' = [me EXCEPT ![a] =
                            IF store_raises /\ @.tries < login_attempts
                            THEN [@ EXCEPT !.pc = "l_retry_wait", !.waits = @ + 1,
                                           !.kinds = @ \cup {"ResourceUnavailable"}]
                            ELSE [@ EXCEPT !.pc = "done",
                                           !.kinds = @ \cup {"ResourceUnavailable"},
                                           !.result = IF store_raises THEN "RetryError"
                                                      ELSE "False"]]
                /\ status' = IF store_raises THEN status
                             ELSE [status EXCEPT ![a] = "Login Failed"]
                /\ UNCHANGED <<handles, am_drivers>>
         ELSE /\ FreeHandles # {}
              /\ LET h  == Min(FreeHandles)
                     hs == [handles EXCEPT ![h] = [st |-> "live", acct |-> a]]
                     c  == close_driver(AmRegAfterGet(a), hs, a)
                     gc == [x \in Handles |-> IF x = h THEN FreeHandle ELSE handles[x]]
                 IN
                 CASE o = "ok" ->
                        /\ lg' = [me EXCEPT ![a].pc = "l_nav", ![a].driver = h]
                        /\ am_drivers' = AmRegAfterGet(a)
                        /\ handles' = hs
                        /\ UNCHANGED <<status, last_update>>
                   [] o = "no_account" ->              \* get_account returns None
                        /\ lg' = [me EXCEPT ![a].pc = "done", ![a].result = "False",
                                            ![a].kinds = @ \cup {"MalformedInput"}]
                        /\ am_drivers' = c.reg
                        /\ handles' = gc
                        /\ UNCHANGED <<status, last_update>>
                   [] o = "raise" ->     \* get_account / load_cookies / driver.get raises
                        \E store_raises \in UpdateRaises("Login Failed") :
                          /\ last_update' = <<UpdateCall(a, "Login Failed", store_raises)>>
                          /\ lg' = [me EXCEPT ![a] =
                                      IF store_raises /\ @.tries < login_attempts
                                      THEN [@ EXCEPT !.pc = "l_retry_wait", !.waits = @ + 1,
                                                     !.kinds = @ \cup {"Transient"}]
                                      ELSE [@ EXCEPT !.pc = "done",
                                                     !.kinds = @ \cup {"Transient"},
                                                     !.result = IF store_raises
                                                                THEN "RetryError" ELSE "False"]]
                          /\ status' = IF store_raises THEN status
                                       ELSE [status EXCEPT ![a] = "Login Failed"]
                          /\ am_drivers' = c.reg
                          /\ handles' = gc

\* one update_account(a, status=s) inside the try block: the invocation ends
\* with out when the store takes s, else in the handler of line 226
WriteOrHandle(a, s, out, kind) ==
    LET c == close_driver(am_drivers, handles, a) IN
    \E raises \in UpdateRaises(s) :
      IF raises
      THEN LoginHandler(a, am_drivers, handles, TRUE, kind, <<UpdateCall(a, s, TRUE)>>)
      ELSE /\ AttemptEnd(a, c.reg, c.hs, out, kind)
           /\ status' = [status EXCEPT ![a] = s]
           /\ last_update' = <<UpdateCall(a, s, FALSE)>>

\* login_account 185-196 after the first sleep: the cookies of the account
\* were loaded and the address is not the login page (187-194), or the form
\* is filled in and the button clicked, up to the next sleep
LoginForm(a) ==
    /\ LoopFree /\ lg[a].pc = "l_nav"
    /\ LoginUnchanged
    /\ UNCHANGED <<lb, prevented, lret>> /\ progress' = NoProgress
    /\ \E o \in {"raise", "cookies", "form"} :
         CASE o = "raise" -> LoginHandler(a, am_drivers, handles, TRUE, "Transient", <<>>)
           [] o = "cookies" -> WriteOrHandle(a, "Logged In (Cookies)", "True", "StoreRejected")
           [] o = "form" ->
                /\ lg' = [lg EXCEPT ![a].pc = "l_submitted"]
                /\ UNCHANGED <<handles, am_drivers, status, last_update>>

\* login_account 197-225: checkpoint, ban detection, success
LoginSubmitted(a) ==
    /\ LoopFree /\ lg[a].pc = "l_submitted"
    /\ LoginUnchanged
    /\ UNCHANGED <<lb, prevented, lret>> /\ progress' = NoProgress
    /\ LET c == close_driver(am_drivers, handles, a) IN
       \E o \in {"raise", "captcha_failed", "twofa", "banned", "ok"} :
         CASE o = "raise" -> LoginHandler(a, am_drivers, handles, TRUE, "Transient", <<>>)
           [] o = "captcha_failed" -> WriteOrHandle(a, "CAPTCHA Failed", "False", "Captcha")
           [] o = "twofa" ->
                /\ AttemptEnd(a, c.reg, c.hs, "False", "TwoFactor")
                /\ UNCHANGED <<status, last_update>>
           [] o = "banned" -> WriteOrHandle(a, "Banned", "False", "AuthBanned")
           [] o = "ok" ->
                /\ AttemptEnd(a, c.reg, c.hs, "True", "none")
                /\ status' = [status EXCEPT ![a] = "Logged In"]
                /\ last_update' = <<UpdateCall(a, "Logged In", FALSE)>>

\* login_all_accounts 150-162: the gather is over; the accounts whose result
\* is True are collected, progressUpdated(i + 1, total) is emitted for every
\* result in turn, the collected accounts are returned
LoginGatherDone ==
    /\ LoopFree /\ lb = "gather"
    /\ \A a \in Accounts : lg[a].pc = "done"
    /\ LoginUnchanged
    /\ lb' = "done"
    /\ progress' = [by |-> "login", k |-> NumAccounts, total |-> NumAccounts, batch |-> 0]
    /\ lret' = [returned |-> TRUE, accounts |-> {a \in Accounts : lg[a].result = "True"}]
    /\ UNCHANGED <<lg, handles, am_drivers, status, prevented, last_update>>

\* ---------------------------------------------- GroupManager.setup_driver
\* How setup_driver(account) ends for a call made from a coroutine:
\*   "no_driver": get_driver raises, the handler of line 128 returns None;
\*   "leak":      get_driver returned a browser and decrypt_data, load_cookies
\*                or driver.get raises: the handler returns None, the browser
\*                stays open and registered;
\*   "block":     line 121 waits synchronously, on the event-loop thread, for a
\*                coroutine submitted to that same loop.
SetupOutcomes == {"no_driver", "leak", "block"}

\* for i in accounts: setup_driver(acc) with outcome f[acc], from account i on
RECURSIVE SetupAll(_, _, _, _)
SetupAll(f, i, reg, hs) ==
    IF i > NumAccounts THEN [reg |-> reg, hs |-> hs, blocked |-> FALSE]
    ELSE IF f[i] = "no_driver" THEN SetupAll(f, i + 1, reg, hs)
    ELSE LET free == {h \in Handles : hs[h].st = "free"}
             h    == IF reg[i] # 0 THEN reg[i] ELSE Min(free)
             reg2 == [reg EXCEPT ![i] = h]
             hs2  == [hs EXCEPT ![h] = [st |-> "live", acct |-> i]]
         IN  IF f[i] = "block" THEN [reg |-> reg2, hs |-> hs2, blocked |-> TRUE]
             ELSE SetupAll(f, i + 1, reg2, hs2)

\* add_members_to_group 382-403 (no developer account): setup_driver for every
\* account, in the calling coroutine
add_members_to_group ==
    /\ LoopFree
    /\ Cardinality(FreeHandles) >= NumAccounts
    /\ \E f \in [Accounts -> SetupOutcomes] :
         /\ \A a \in Accounts : (\E b \in Accounts : b < a /\ f[b] = "block") => f[a] = "block"
         /\ LET r == SetupAll(f, 1, drivers, handles) IN
            /\ drivers' = r.reg
            /\ handles' = r.hs
            /\ loop_blocked' = r.blocked
    /\ UNCHANGED <<tk, posted, pac, stop_flag, stale_use, invocations, failures, delays,
                   classes, retry_result, observed, posts, now, sch, dispatched, prevented,
                   am_drivers, lb, lg, status,
                   proxy_index, logs, selected,
                   ban, crypt, gb, last_update, lret>> /\ progress' = NoProgress

\* close_groups_browser (ui_design.py): close_all_drivers of the shared manager
close_all_drivers ==
    /\ LoopFree
    /\ \E a \in Accounts : drivers[a] # 0
    /\ drivers' = [a \in Accounts |-> 0]
    /\ handles' = GC([h \in Handles |->
                        IF \E a \in Accounts : drivers[a] = h
                        THEN [handles[h] EXCEPT !.st = "released"] ELSE handles[h]], tk)
    /\ UNCHANGED <<tk, posted, pac, stop_flag, stale_use, invocations, failures, delays,
                   classes, retry_result, observed, loop_blocked, posts, now, sch,
                   dispatched, prevented, am_drivers, lb, lg, status,
                   proxy_index, logs, selected,
                   ban, crypt, gb, last_update, lret>> /\ progress' = NoProgress

\* ------------------------------------------------------- proxy rotation
ProxyUnchanged == UNCHANGED <<tk, drivers, handles, posted, pac, stop_flag, stale_use,
                              invocations, failures, delays, classes, retry_result, observed,
                              loop_blocked, posts, now, sch, dispatched, prevented,
                              am_drivers, lb, lg, status,
                              ban, crypt, gb, last_update, lret>> /\ progress' = NoProgress

\* LogManager.add_log(fb_id, target, "Login Failed", ...): a login failure of
\* session key k is recorded; the target column is empty (0) or names a key.
\* get_logs returns the rows newest first.
RecordFailure ==
    /\ Len(logs) < MaxLogs
    /\ \E k \in Accounts, tgt \in {0} \cup Accounts :
         logs' = <<[fb_id |-> k, target |-> tgt]>> \o logs
    /\ UNCHANGED <<proxy_index, selected>>
    /\ ProxyUnchanged

\* the rows get_logs(action="Login Failed", limit=10) returns
LoginFailedLogs == SubSeq(logs, 1, IF Len(logs) < log_limit THEN Len(logs) ELSE log_limit)

\* rows of a result of get_logs whose column 2 is key k: the columns are
\* id, fb_id, target, ..., so column 2 is the target column
CountColumn2(rows, k) == Cardinality({i \in 1..Len(rows) : rows[i].target = k})

\* failures that have been recorded for key k
FailuresOf(k) == Cardinality({i \in 1..Len(logs) : logs[i].fb_id = k})

\* lengths of the config list "proxies" read by a call (ConfigManager default: [])
ProxyLists == {0, 1, NumProxies}

\* a list is taken for a list with proxies whatever its length
NeverEmpty(len) == FALSE

\* "if not proxies" of main.py 77 and utils.py 221
NoProxies(len) == len = 0

\* SmartPosterApp.rotate_proxy(session_id = k), main.py 73-92, with a list of
\* len proxies; idx = -1: None is returned (no proxies, or the handler of line
\* 89 caught get_logs raising or proxies[index] out of range)
app_rotate_proxy(k) ==
    /\ \E len \in ProxyLists, raise \in BOOLEAN :
         LET fresh  == proxy_index[k] = -1
             ix     == IF fresh THEN 0
                       ELSE IF CountColumn2(LoginFailedLogs, k) > 2
                            THEN (proxy_index[k] + 1) % len
                            ELSE proxy_index[k]
             sel(i) == [by |-> "app", key |-> k, prev |-> proxy_index[k],
                        fails |-> FailuresOf(k), len |-> len, idx |-> i]
         IN  IF NoProxies(len) \/ (raise /\ ~fresh)
             THEN /\ selected' = sel(-1)
                  /\ UNCHANGED proxy_index
             ELSE /\ proxy_index' = [proxy_index EXCEPT ![k] = ix]
                  /\ selected' = sel(IF ix < len THEN ix ELSE -1)
    /\ UNCHANGED logs
    /\ ProxyUnchanged

\* SessionManager.rotate_proxy(account_id = k), utils.py 218-229:
\* None without proxies, else random.choice(proxies)
sm_rotate_proxy(k) ==
    /\ \E len \in ProxyLists :
         \E ix \in IF NoProxies(len) THEN {-1} ELSE 0..(len - 1) :
            selected' = [by |-> "sm", key |-> k, prev |-> -1, fails |-> FailuresOf(k),
                         len |-> len, idx |-> ix]
    /\ UNCHANGED <<proxy_index, logs>>
    /\ ProxyUnchanged

\* ------------------------------------- predictive_ban_detection (utils.py)
\* A URL is the sequence of its characters.
LowerOf == [c \in {"L", "O", "G", "I", "N", "B"} |->
              CASE c = "L" -> "l" [] c = "O" -> "o" [] c = "G" -> "g"
                [] c = "I" -> "i" [] c = "N" -> "n" [] c = "B" -> "b"]

\* the address taken as it is
Verbatim(s) == s

\* str.lower()
Lower(s) == [i \in 1..Len(s) |-> IF s[i] \in DOMAIN LowerOf THEN LowerOf[s[i]] ELSE s[i]]

\* the "in" operator of two strings: kw occurs in s as a contiguous run
Contains(s, kw) ==
    \E i \in 1..(Len(s) - Len(kw) + 1) : SubSeq(s, i, i + Len(kw) - 1) = kw

\* the default of config_manager.get("ban_keywords", ...): the key is not one
\* ConfigManager keeps, so the default is what the call returns
ban_keywords == {<<"l", "o", "g", "i", "n">>,
                 <<"c", "h", "e", "c", "k", "p", "o", "i", "n", "t">>,
                 <<"s", "u", "s", "p", "e", "n", "d", "e", "d">>,
                 <<"d", "i", "s", "a", "b", "l", "e", "d">>,
                 <<"b", "a", "n", "n", "e", "d">>}

\* the default of config_manager.get("ban_status_codes", ...)
ban_status_codes == {403, 429}

\* the addresses the browser may be at
UrlCores == {<<"l", "o", "g", "i", "n">>, <<"L", "O", "G", "I", "N">>,
             <<"L", "o", "g", "i", "n">>, <<"l", "o", "g", "i">>,
             <<"c", "h", "e", "c", "k", "p", "o", "i", "n", "t">>,
             <<"c", "h", "e", "c", "k">>,
             <<"s", "u", "s", "p", "e", "n", "d", "e", "d">>,
             <<"d", "i", "s", "a", "b", "l", "e", "d">>,
             <<"B", "a", "n", "n", "e", "d">>, <<"b", "a", "n">>,
             <<"h", "o", "m", "e">>, <<"g", "r", "o", "u", "p", "s">>}
InputUrls == {pre \o core \o post : pre \in {<<>>, <<"/">>, <<"b">>},
                                    core \in UrlCores, post \in {<<>>, <<"?">>}}

\* what find_elements finds, or that it raises
MarkerOutcomes == {"absent", "present", "raise"}

\* requests.get raising requests.RequestException
RequestFailed == 0

\* the status of the response of requests.get, or that the request raises
InputStatus == {200, 403, 404, 429, RequestFailed}

\* lines 384-408, as the record of what the call observed and returned.
\* url_raises: driver.current_url raises; u: the address; m: what the XPath
\* query for the 'banned' / 'suspended' divs does; h: how the request ends.
predictive_ban_detection(url_raises, u, m, h) ==
    IF url_raises
    THEN [NoBan EXCEPT !.raised = "current_url", !.result = "False"]
    ELSE IF \E kw \in ban_keywords : Contains(Lower(u), kw)
    THEN [NoBan EXCEPT !.url = u, !.result = "True"]
    ELSE IF m = "raise"
    THEN [NoBan EXCEPT !.url = u, !.raised = "find_elements", !.result = "False"]
    ELSE IF m = "present"
    THEN [NoBan EXCEPT !.url = u, !.marker = m, !.result = "True"]
    ELSE IF h = RequestFailed
    THEN [NoBan EXCEPT !.url = u, !.marker = m, !.raised = "requests",
                       !.result = "False"]
    ELSE [NoBan EXCEPT !.url = u, !.marker = m, !.http = h,
                       !.result = IF h \in ban_status_codes THEN "True" ELSE "False"]

\* one call of the detector on a browser in any observable condition
BanCheck ==
    /\ \E url_raises \in BOOLEAN, u \in InputUrls, m \in MarkerOutcomes, h \in InputStatus :
         ban' = predictive_ban_detection(url_raises, u, m, h)
    /\ UNCHANGED <<tk, drivers, handles, posted, pac, stop_flag, stale_use, invocations,
                   failures, delays, classes, retry_result, observed, loop_blocked, posts,
                   now, sch, dispatched, prevented, am_drivers, lb, lg, status,
                   proxy_index, logs, selected, crypt, gb, last_update, lret>> /\ progress' = NoProgress

\* ----------------------------- encrypt_data / decrypt_data (utils.py)
\* A str is the sequence of its code points, a bytes object the sequence of
\* its bytes.
MaxTextLen == 3
IVs == {0, 1, 2}

\* 'A', e-acute (2 bytes in UTF-8), the euro sign (3 bytes), a lone surrogate
CodePoints == {65, 233, 8364, 55296}

InputTexts == UNION {[1..n -> CodePoints] : n \in 0..MaxTextLen}

\* the config objects the functions are called with: the application's
\* ConfigManager, the DummyConfigManager of the module's own main block
Configs == {"ConfigManager", "DummyConfigManager"}

\* config_manager.get("encryption_salt", b'smart_poster_salt'): ConfigManager
\* keeps no such key and returns the default, a bytes object; the dummy
\* returns the str "smart_poster_salt"
SaltType(cfg) == IF cfg = "ConfigManager" THEN "bytes" ELSE "str"

\* _generate_key 285-291: .encode() is called on the salt, which a bytes
\* object does not have
KeyRaises(cfg) == SaltType(cfg) # "str"

\* stands for the 32 bytes PBKDF2 derives from the salt
DerivedKey == 41

IsSurrogate(c) == c >= 55296 /\ c <= 57343

\* str.encode(): UTF-8; raises on a surrogate
EncodeChar(c) ==
    IF c < 128 THEN <<c>>
    ELSE IF c < 2048 THEN <<192 + (c \div 64), 128 + (c % 64)>>
    ELSE <<224 + (c \div 4096), 128 + ((c \div 64) % 64), 128 + (c % 64)>>

RECURSIVE Utf8Encode(_)
Utf8Encode(s) == IF s = <<>> THEN <<>> ELSE EncodeChar(Head(s)) \o Utf8Encode(Tail(s))

EncodeRaises(s) == \E i \in 1..Len(s) : IsSurrogate(s[i])

\* bytes.decode(): UTF-8
RECURSIVE Utf8Valid(_)
Utf8Valid(b) ==
    IF b = <<>> THEN TRUE
    ELSE IF b[1] < 128 THEN Utf8Valid(Tail(b))
    ELSE IF b[1] >= 192 /\ b[1] < 224
    THEN Len(b) >= 2 /\ b[2] >= 128 /\ b[2] < 192 /\ Utf8Valid(SubSeq(b, 3, Len(b)))
    ELSE IF b[1] >= 224 /\ b[1] < 240
    THEN /\ Len(b) >= 3 /\ b[2] >= 128 /\ b[2] < 192 /\ b[3] >= 128 /\ b[3] < 192
         /\ Utf8Valid(SubSeq(b, 4, Len(b)))
    ELSE FALSE

RECURSIVE Utf8Decode(_)
Utf8Decode(b) ==
    IF b = <<>> THEN <<>>
    ELSE IF b[1] < 128 THEN <<b[1]>> \o Utf8Decode(Tail(b))
    ELSE IF b[1] < 224
    THEN <<(b[1] - 192) * 64 + (b[2] - 128)>> \o Utf8Decode(SubSeq(b, 3, Len(b)))
    ELSE <<(b[1] - 224) * 4096 + (b[2] - 128) * 64 + (b[3] - 128)>>
            \o Utf8Decode(SubSeq(b, 4, Len(b)))

\* a Fernet token: version byte, initialisation vector, the enciphered bytes,
\* the authentication code of the key
FernetVersion == 128
Mac(key, iv) == (3 * key + iv) % 256

FernetEncrypt(key, iv, b) ==
    <<FernetVersion, iv>> \o [i \in 1..Len(b) |-> (b[i] + key + iv) % 256] \o <<Mac(key, iv)>>

\* Fernet.decrypt raises InvalidToken on anything that is not a token of the key
FernetValid(key, tok) ==
    /\ Len(tok) >= 3
    /\ tok[1] = FernetVersion
    /\ tok[Len(tok)] = Mac(key, tok[2])

FernetDecrypt(key, tok) ==
    [i \in 1..(Len(tok) - 3) |-> (tok[i + 2] + 512 - key - tok[2]) % 256]

\* encrypt_data 269-275: [raised, out]
encrypt_data(data, cfg, iv) ==
    IF KeyRaises(cfg) \/ EncodeRaises(data)
    THEN [raised |-> TRUE, out |-> <<>>]
    ELSE [raised |-> FALSE, out |-> FernetEncrypt(DerivedKey, iv, Utf8Encode(data))]

\* decrypt_data 277-283: [raised, out]
decrypt_data(encrypted_data, cfg) ==
    IF KeyRaises(cfg) \/ ~FernetValid(DerivedKey, encrypted_data)
    THEN [raised |-> TRUE, out |-> <<>>]
    ELSE LET b == FernetDecrypt(DerivedKey, encrypted_data) IN
         IF Utf8Valid(b) THEN [raised |-> FALSE, out |-> Utf8Decode(b)]
         ELSE [raised |-> TRUE, out |-> <<>>]

CryptUnchanged == UNCHANGED <<tk, drivers, handles, posted, pac, stop_flag, stale_use,
                              invocations, failures, delays, classes, retry_result, observed,
                              loop_blocked, posts, now, sch, dispatched, prevented,
                              am_drivers, lb, lg, status, proxy_index, logs, selected,
                              ban, gb, last_update, progress, lret>>

\* encrypt_data(p, config) is called
EncryptData ==
    /\ \E p \in InputTexts, cfg \in Configs, iv \in IVs :
         LET r == encrypt_data(p, cfg, iv) IN
         crypt' = [op |-> "encrypt", cfg |-> cfg, p |-> p, raised |-> r.raised, out |-> r.out]
    /\ CryptUnchanged

\* decrypt_data is called with what the last encrypt_data returned, with the
\* same config
DecryptData ==
    /\ crypt.op = "encrypt" /\ ~crypt.raised
    /\ LET r == decrypt_data(crypt.out, crypt.cfg) IN
       crypt' = [crypt EXCEPT !.op = "decrypt", !.raised = r.raised, !.out = r.out]
    /\ CryptUnchanged

\* ---------------------------------------- the password of an account
\* the passwords of the import: "abc123", "p&ss" e-acute "!"
ImportPasswords == {<<97, 98, 99, 49, 50, 51>>, <<112, 38, 115, 115, 233, 33>>}

\* bleach.clean: "&" becomes "&amp;"
RECURSIVE Clean(_)
Clean(s) ==
    IF s = <<>> THEN <<>>
    ELSE (IF Head(s) = 38 THEN <<38, 97, 109, 112, 59>> ELSE <<Head(s)>>) \o Clean(Tail(s))

\* Database.sanitize_input 279-282: "'" is doubled, ";" is removed
RECURSIVE sanitize_input(_)
sanitize_input(s) ==
    IF s = <<>> THEN <<>>
    ELSE (IF Head(s) = 39 THEN <<39, 39>> ELSE IF Head(s) = 59 THEN <<>> ELSE <<Head(s)>>)
            \o sanitize_input(Tail(s))

HexDigit(n) == IF n < 10 THEN 48 + n ELSE 87 + n

RECURSIVE WeightedSum(_, _)
WeightedSum(b, i) == IF b = <<>> THEN 0 ELSE i * Head(b) + WeightedSum(Tail(b), i + 1)

\* the hexadecimal SHA-256 digest of a str, shortened to one byte: many
\* inputs share a digest, none can be computed back from it
Sha256Hex(s) ==
    LET d == WeightedSum(Utf8Encode(s), 1) % 256 IN <<HexDigit(d \div 16), HexDigit(d % 16)>>

\* add_accounts 68-90 and Database.add_account 284-302: what is stored in the
\* password column for the password p of an import line
StoredSecret(p) == Sha256Hex(sanitize_input(Sha256Hex(Clean(p))))

\* add_accounts imports an account with password p
ImportAccount ==
    /\ \E p \in ImportPasswords, cfg \in Configs :
         crypt' = [op |-> "import", cfg |-> cfg, p |-> p, raised |-> FALSE,
                   out |-> StoredSecret(p)]
    /\ CryptUnchanged

\* login_account 198-199 for the imported account: the stored secret is
\* decrypted and typed into the password field
LoginDecrypt ==
    /\ crypt.op = "import"
    /\ LET r == decrypt_data(crypt.out, crypt.cfg) IN
       crypt' = [crypt EXCEPT !.op = "login", !.raised = r.raised, !.out = r.out]
    /\ CryptUnchanged

NextCrypt ==
    \/ EncryptData
    \/ DecryptData
    \/ ImportAccount
    \/ LoginDecrypt

SpecCrypt == Init /\ [][NextCrypt]_vars

\* ------------------------------- GroupManager.add_members_to_group, workers
\* The invitation batch with developer accounts (group_manager.py 382-423).
\* gb.owners lists, in creation order, the account each worker was created
\* for; gb.results the entry of gather's result list for each worker; gb.log
\* the failures logged with an account id, each with the worker that raised it.
DeveloperSets == (SUBSET Accounts) \ {{}}

\* how one _add_members_graph_api coroutine goes (lines 425-454)
GraphOutcomes == {"invited", "error_reply", "request_error", "raises"}

\* a coroutine without the handler of lines 453-454
Propagated(o) == IF o = "raises" THEN "raise" ELSE "None"

\* lines 427 and 453-454: the whole body runs under try / except Exception, the
\* handler logs and the coroutine returns None
GraphWorkerResult(o) == "None"

GroupUnchanged == UNCHANGED <<tk, posted, pac, stop_flag, stale_use, invocations, failures,
                              delays, classes, retry_result, observed, posts, now, sch,
                              dispatched, prevented, am_drivers, lb, lg, status,
                              proxy_index, logs, selected, ban, crypt, last_update, lret>>

\* lines 382-407, up to the await of gather: a developer account gets a Graph
\* API worker without a browser; for any other account setup_driver is called
\* in the coroutine and a worker would be created only for a returned driver
AddMembersStart ==
    /\ LoopFree
    /\ gb.pc \in {"none", "done"}
    /\ Cardinality(FreeHandles) >= NumAccounts
    /\ \E dev \in DeveloperSets, f \in [Accounts -> SetupOutcomes] :
         /\ \A a \in dev : f[a] = "no_driver"
         /\ \A a \in Accounts \ dev :
              (\E b \in Accounts \ dev : b < a /\ f[b] = "block") => f[a] = "block"
         /\ LET r      == SetupAll(f, 1, drivers, handles)
                made   == {a \in dev : ~\E b \in Accounts : b < a /\ f[b] = "block"}
                owners == SortedSeq(made)
            IN  /\ drivers' = r.reg
                /\ handles' = r.hs
                /\ loop_blocked' = r.blocked
                /\ gb' = [pc      |-> IF r.blocked THEN "blocked" ELSE "gather",
                          owners  |-> owners,
                          results |-> [i \in 1..Len(owners) |-> "pending"],
                          log     |-> {}]
    /\ GroupUnchanged
    /\ progress' = NoProgress

\* _add_members_graph_api of worker i, lines 425-451, for a list of one member:
\* every failure is logged with the account_id the coroutine was created with
GraphWorker(i) ==
    /\ LoopFree
    /\ gb.pc = "gather"
    /\ i \in 1..Len(gb.owners)
    /\ gb.results[i] = "pending"
    /\ \E o \in GraphOutcomes :
         gb' = [gb EXCEPT !.results[i] = IF o = "raises" THEN GraphWorkerResult(o)
                                         ELSE "sleeping",
                          !.log = IF o = "invited" THEN @
                                  ELSE @ \cup {[acct |-> gb.owners[i], task |-> i]}]
    /\ GroupUnchanged
    /\ UNCHANGED <<drivers, handles, loop_blocked>>
    /\ progress' = NoProgress

\* line 452: the pause after a member has been handled; the list is exhausted
\* and the coroutine returns
GraphWorkerPause(i) ==
    /\ LoopFree
    /\ gb.pc = "gather"
    /\ i \in 1..Len(gb.owners)
    /\ gb.results[i] = "sleeping"
    /\ gb' = [gb EXCEPT !.results[i] = GraphWorkerResult("invited")]
    /\ GroupUnchanged
    /\ UNCHANGED <<drivers, handles, loop_blocked>>
    /\ progress' = NoProgress

\* lines 407-410: gather returns; results[i] that is an exception is logged
\* for accounts[i][0], accounts being the list that get_accounts returned
AddMembersGatherDone ==
    /\ LoopFree
    /\ gb.pc = "gather"
    /\ \A i \in 1..Len(gb.owners) : gb.results[i] \in {"None", "raise"}
    /\ gb' = [gb EXCEPT !.pc = "done",
                        !.log = @ \cup {[acct |-> SortedSeq(Accounts)[i], task |-> i] :
                                           i \in {j \in 1..Len(gb.owners) : gb.results[j] = "raise"}}]
    /\ GroupUnchanged
    /\ UNCHANGED <<drivers, handles, loop_blocked>>
    /\ progress' = NoProgress

NextMembers ==
    \/ AddMembersStart
    \/ \E i \in Accounts : GraphWorker(i)
    \/ \E i \in Accounts : GraphWorkerPause(i)
    \/ AddMembersGatherDone
    \/ close_all_drivers

SpecMembers == Init /\ [][NextMembers]_vars

\* post_all_content(schedule_times=...) whose time strings all fail the pattern
\* of line 103: every one is skipped (104-105), no row is added, and lines
\* 115-116 start the scheduler task unless one exists that is not done
ScheduleNoRow ==
    /\ LoopFree
    /\ sch' = IF LoopAlive(sch) THEN sch ELSE [NoSched EXCEPT !.pc = "ready"]
    /\ UNCHANGED <<tk, drivers, handles, posted, pac, stop_flag, stale_use, invocations,
                   failures, delays, classes, retry_result, observed, loop_blocked, posts, now,
                   dispatched, prevented, am_drivers, lb, lg, status,
                   proxy_index, logs, selected,
                   ban, crypt, gb, last_update, lret>> /\ progress' = NoProgress

\* ----------------------------------------------------------------- Next
\* on-demand batches: post_all_content calls, their workers and follow-ups
Next ==
    \/ \E c \in Callers : CallStart(c)
    \/ \E c \in Callers : RetryWake(c)
    \/ \E c \in Callers : GatherDone(c)
    \/ \E t \in Tasks : UnitStart(t)
    \/ \E t \in Tasks : UnitVerified(t)
    \/ \E t \in Tasks : UnitReauthDone(t)
    \/ \E t \in Tasks : PostGroupNav(t)
    \/ \E t \in Tasks : PostGroupPosted(t)
    \/ \E t \in Tasks : PostGroupDelay(t)
    \/ \E t \in Tasks : AutoInteract(t)
    \/ \E t \in Tasks : AutoWait(t)

Spec == Init /\ [][Next]_vars

\* time-triggered batches: the scheduler loop, its batches and their workers
NextSched ==
    \/ ScheduleRequest
    \/ schedule_post
    \/ Tick
    \/ SchedPoll
    \/ SchedIter
    \/ SchedGatherDone
    \/ SchedHandler
    \/ stop_posting
    \/ resume_publishing
    \/ SchedCancelled
    \/ \E t \in Tasks : UnitCancelled(t)
    \/ \E t \in Tasks : UnitStart(t)
    \/ \E t \in Tasks : UnitVerified(t)
    \/ \E t \in Tasks : UnitReauthDone(t)
    \/ \E t \in Tasks : PostGroupNav(t)
    \/ \E t \in Tasks : PostGroupPosted(t)
    \/ \E t \in Tasks : PostGroupDelay(t)
    \/ \E t \in Tasks : AutoInteract(t)
    \/ \E t \in Tasks : AutoWait(t)

SpecSched == Init /\ [][NextSched]_vars

\* the login batch of the accounts page
NextLogin ==
    \/ login_all_accounts
    \/ \E a \in Accounts : LoginStart(a)
    \/ \E a \in Accounts : LoginForm(a)
    \/ \E a \in Accounts : LoginSubmitted(a)
    \/ LoginGatherDone

SpecLogin == Init /\ [][NextLogin]_vars

\* group operations next to on-demand batches: both use app.session_manager
NextGroup ==
    \/ add_members_to_group
    \/ close_all_drivers
    \/ Next

SpecGroup == Init /\ [][NextGroup]_vars

\* on-demand batches with the stop and resume buttons
NextStop ==
    \/ stop_posting
    \/ resume_publishing
    \/ Next

SpecStop == Init /\ [][NextStop]_vars

\* ------------------------------------------------------------- properties
\* tasks whose coroutine holds a reference to a live browser of account a
Owners(a) == {t \in Tasks : /\ tk[t].kind # "free" /\ tk[t].acct = a
                            /\ tk[t].driver # 0 /\ handles[tk[t].driver].st = "live"}

BatchLive(b) == {h \in LiveHandles : \E t \in Tasks : tk[t].batch = b /\ tk[t].driver = h}

C3_EventuallyReleased ==
    \A h \in Handles : (handles[h].st = "live") ~> (handles[h].st # "live")

C5_DispatchedAtMostOnce == \A p \in Posts : dispatched[p] <= 1

\* C6: a scheduled task has left Pending before its batch is invoked: while
\* the batch of a task is running the task is no longer Pending.
C6_LeavesPendingBeforeBatch ==
    sch.pc = "gather" => posts[Head(sch.list)].status # "Pending"

\* C7: a failure of one account's unit of work never prevents the start of
\* the worker of another account of the batch.
C7_NoWorkerPrevented == prevented = {}

NonRetryable == {"AuthBanned", "MalformedInput", "ResourceUnavailable"}

\* C9: after an attempt that failed with a non-retryable class there is no
\* retry delay and no further attempt.
C9_NonRetryableNotRetried ==
    \A c \in Callers : \A i \in 1..Len(classes[c]) :
       classes[c][i] \in NonRetryable => (invocations[c] = i /\ pac[c].pc # "retry_sleep")

\* C10: when the retries are exhausted the caller does not observe a normal
\* return, which is what it observes on success.
C10_ExhaustionSurfaced ==
    \A c \in Callers :
       (pac[c].pc = "done" /\ retry_result[c] = "exhausted") => observed[c] # "return_None"

\* fairness of the event loop and of the user interface for C3
SpecGroupFair == SpecGroup /\ WF_vars(NextGroup)

NextSchedRun ==
    \/ ScheduleRequest
    \/ schedule_post
    \/ Tick
    \/ SchedPoll
    \/ SchedIter
    \/ SchedGatherDone
    \/ SchedHandler
    \/ \E t \in Tasks : UnitStart(t)
    \/ \E t \in Tasks : UnitVerified(t)
    \/ \E t \in Tasks : UnitReauthDone(t)
    \/ \E t \in Tasks : PostGroupNav(t)
    \/ \E t \in Tasks : PostGroupPosted(t)
    \/ \E t \in Tasks : PostGroupDelay(t)
    \/ \E t \in Tasks : AutoInteract(t)
    \/ \E t \in Tasks : AutoWait(t)

\* fair scheduling: time passes, the event loop runs every coroutine that can
\* run, and the store does not fail to return the due rows for ever
SpecSchedFair ==
    /\ Init /\ [][NextSchedRun]_vars
    /\ WF_vars(NextSchedRun)
    /\ WF_vars(Tick)
    /\ WF_vars(SchedPoll)
    /\ WF_vars(SchedIter)
    /\ WF_vars(SchedHandler)
    /\ SF_vars(SchedPoll /\ sch'.pc = "iter" /\ sch'.list # <<>>)

\* C12: every scheduled post that is Pending and whose due time has arrived is
\* eventually dispatched to a batch (unless the clock wraps to before its time).
C12_EventuallyDispatched ==
    \A p \in Posts : (posts[p].status = "Pending" /\ ~StrLess(strftime(now), posts[p].time))
                         ~> (dispatched[p] > 0 \/ StrLess(strftime(now), posts[p].time))

\* C13: when the batch dispatched for a scheduled post has raised, the post is
\* no longer Pending when the scheduler handles the failure.
C13_FailedLeavesNonPending ==
    (sch.pc = "handler" /\ sch.err = "batch") => posts[Head(sch.list)].status # "Pending"

\* C14: a scheduled post becomes Posted only by the step that ends the gather of
\* the workers started for it, never without a worker having run.
C14_PostedOnlyAfterRun ==
    [][\A p \in Posts : (posts[p].status # "Posted" /\ posts'[p].status = "Posted")
                            => sch.pc = "gather"]_vars

\* the minute of the day that a "HH:MM" string denotes
Minutes(str) == ((str[1] - 48) * 10 + (str[2] - 48)) * 60 + (str[4] - 48) * 10 + (str[5] - 48)

\* C15: every scheduled post the scheduler dispatches in a poll cycle is Pending
\* and its due time is not later than the time of the poll.
C15_DispatchedOnlyWhenDue ==
    sch.pc \in {"iter", "gather"} =>
       \A i \in 1..Len(sch.list) :
          /\ posts[sch.list[i]].status = "Pending"
          /\ Minutes(posts[sch.list[i]].time) <= Minutes(sch.now)

\* C15: a post is being run that was due one minute before the poll that
\* dispatched it
C15_Witness ==
    /\ sch.pc = "gather"
    /\ Minutes(posts[Head(sch.list)].time) + 1 = Minutes(sch.now)

\* C16: while the stop flag is set no worker or follow-up task is created, no
\* task that has not begun begins to run, and no batch starts a retry attempt.
C16_NothingStartsAfterStop ==
    [][(stop_flag /\ stop_flag') =>
         /\ \A t \in Tasks : tk[t].kind = "free" => tk'[t].kind = "free"
         /\ \A t \in Tasks : tk[t].pc = "start" => tk'[t].pc \in {"start", "unstarted"}
         /\ \A c \in Callers : pac[c].pc = "retry_sleep" => invocations'[c] = invocations[c]]_vars

UnitStep(t) ==
    \/ UnitStart(t) \/ UnitVerified(t) \/ UnitReauthDone(t)
    \/ PostGroupNav(t) \/ PostGroupPosted(t) \/ PostGroupDelay(t)
    \/ AutoInteract(t) \/ AutoWait(t)

\* the publish page with its stop and resume buttons next to the groups page,
\* both on the SessionManager of the application
NextStopGroup ==
    \/ stop_posting
    \/ resume_publishing
    \/ NextGroup

\* the event loop runs every coroutine that can run
SpecStopFair ==
    /\ Init /\ [][NextStopGroup]_vars
    /\ \A t \in Tasks : WF_vars(UnitStep(t))
    /\ \A c \in Callers : WF_vars(RetryWake(c) \/ GatherDone(c))

\* C18: a browser handle that is live while the stop flag is set is eventually
\* released.
C18_ReleasedAfterStop ==
    \A h \in Handles : (stop_flag /\ handles[h].st = "live") ~> (handles[h].st # "live")

\* the scheduler task exists and has not finished
SchedRunning == sch.pc \in {"ready", "sleep", "iter", "gather", "handler"}

\* C19: after a failure in a poll cycle the scheduler sleeps for the interval,
\* and the loop is left only when the stop flag is set.
C19_LoopSurvivesFailure ==
    [][/\ (sch.pc = "handler" /\ sch' # sch) => sch' = SchedSleep
       /\ (SchedRunning /\ ~SchedRunning') => stop_flag']_vars

\* C19: the scheduler polls again and finds the post whose dispatch failed
C19_Witness ==
    /\ ~stop_flag
    /\ sch.pc = "iter"
    /\ sch.list # <<>>
    /\ dispatched[Head(sch.list)] >= 1

\* recorded login failures and the two proxy selectors
NextProxy ==
    \/ RecordFailure
    \/ \E k \in Accounts : app_rotate_proxy(k)
    \/ \E k \in Accounts : sm_rotate_proxy(k)

SpecProxy == Init /\ [][NextProxy]_vars

\* C20: when more than 2 failures have been recorded for a key whose index is
\* i (0 for a fresh key), rotate_proxy of the application returns the proxy at
\* index (i + 1) mod the length of the list.
C20_RotatesAfterFailures ==
    (selected.by = "app" /\ selected.fails > 2 /\ selected.idx # -1) =>
       selected.idx = ((IF selected.prev = -1 THEN 0 ELSE selected.prev) + 1) % selected.len

\* C21: for a key with at most 2 recorded failures a selector that returns a
\* proxy returns the one at index 0.
C21_IndexZeroUntilFailures ==
    (selected.by # "none" /\ selected.fails <= 2 /\ selected.idx # -1) => selected.idx = 0

\* C22: when a call has advanced the index of a key, the next call for that key
\* with the same list and fewer than 3 new recorded failures returns the same
\* proxy.
C22_RotationResetsCount ==
    [][(/\ selected.by = "app" /\ selected'.by = "app" /\ selected' # selected
        /\ selected'.key = selected.key /\ selected'.len = selected.len
        /\ selected.prev # -1 /\ selected.idx # selected.prev
        /\ selected.idx # -1 /\ selected'.idx # -1
        /\ selected'.fails < selected.fails + 3)
       => selected'.idx = selected.idx]_vars

\* C23: a selector called with an empty proxy list returns None and leaves
\* proxy_index as it was.
C23_EmptyListReturnsNone ==
    [][(selected'.by # "none" /\ selected'.len = 0)
          => (selected'.idx = -1 /\ proxy_index' = proxy_index)]_vars

\* C23: rotate_proxy of the application was called with an empty list for a key
\* that has an index and more than 2 recorded failures
C23_Witness ==
    /\ selected.by = "app" /\ selected.len = 0
    /\ selected.prev # -1 /\ selected.fails > 2

\* ------------------------------------------------------ ban detection
NextBan == BanCheck

SpecBan == Init /\ [][NextBan]_vars

\* "login", "checkpoint", "suspended", "disabled" or "banned" occurs in the
\* address, whatever the case of the address's letters
UrlNamesBan(u) ==
    \E kw \in ban_keywords : \E i \in 1..Len(u), j \in 1..Len(u) :
       /\ j - i + 1 = Len(kw)
       /\ \A n \in 1..Len(kw) :
            LET c == u[i + n - 1] IN
            kw[n] = (IF c \in DOMAIN LowerOf THEN LowerOf[c] ELSE c)

\* C24: a call of the ban detector returns True if and only if the address it
\* observed contains a configured ban keyword, or it observed an on-page ban
\* marker, or the HTTP status it observed is 403 or 429; for a clean address,
\* no marker and status 200 it returns False.
C24_BannedIffSignal ==
    ban.result # "none" =>
       /\ ban.result = "True" <=>
             \/ (ban.raised # "current_url" /\ UrlNamesBan(ban.url))
             \/ ban.marker = "present"
             \/ ban.http \in {403, 429}
       /\ (~UrlNamesBan(ban.url) /\ ban.marker = "absent" /\ ban.http = 200)
             => ban.result = "False"

\* the detector has answered True on an upper-case address, and nothing else
C24_Witness ==
    /\ ban.result = "True"
    /\ ban.url = <<"/", "L", "O", "G", "I", "N">>
    /\ ban.marker = "unobserved" /\ ban.http = 0

OnlyDriverFailures(a) ==
    /\ lg[a].kinds = {"ResourceUnavailable"}
    /\ lg[a].pc \in {"l_retry_wait", "done"}
    /\ lg[a].result # "True"

C27_OnlyAdmittedStatuses ==
    /\ \A a \in Accounts : status[a] \in AcceptedStatus
    /\ \A i \in 1..Len(last_update) : last_update[i].status \in AcceptedStatus

\* ------------------------------------------- order within one account
\* a coroutine of account a (worker or follow-up) has run its first step and
\* has not returned
InProgress(a) ==
    {t \in Tasks : /\ tk[t].kind \in {"post", "auto"} /\ tk[t].acct = a
                   /\ tk[t].pc \notin {"none", "start", "unstarted", "cancelled", "done"}}

\* one _post_content invocation has been made in all: every task is of one batch
OneBatch ==
    /\ Cardinality({c \in Callers : invocations[c] > 0}) = 1
    /\ \A c \in Callers : invocations[c] <= 1

CompletedOf(r) ==
    IF r.by = "login"
    THEN Cardinality({a \in Accounts : lg[a].pc = "done"})
    ELSE Cardinality({t \in Tasks : /\ tk[t].kind = "post" /\ tk[t].batch = r.batch
                                    /\ tk[t].pc = "done"})

\* C29: a progress report (k, total) of a batch is emitted only when k
\* accounts of the batch have completed their unit of work.
C29_ReportedAfterCompletion ==
    progress.by # "none" => progress.k <= CompletedOf(progress)

\* ------------------------------------------------------- batch results
\* C30: what a batch returns tells a batch that was not run from a batch that
\* ran: a login_all_accounts whose logins have all run to their end does not
\* return the empty list, which is what it returns when no login is run.
C30_ResultTellsBatchRan ==
    (lret.returned /\ \A a \in Accounts : lg[a].pc = "done") => lret.accounts # {}

\* ------------------------------------------------- secrets: round trip
\* C31: with one configuration for both calls, encrypt_data(p) returns a
\* token and decrypt_data of that token returns p.
C31_DecryptOfEncrypt ==
    /\ crypt.op = "encrypt" => ~crypt.raised
    /\ crypt.op = "decrypt" => (~crypt.raised /\ crypt.out = crypt.p)

\* C35: the login of an imported account decrypts the stored secret to the
\* password of the import line.
C35_LoginSubmitsImported ==
    crypt.op = "login" => (~crypt.raised /\ crypt.out = crypt.p)

C33_FailureNamesItsWorker ==
    \A e \in gb.log : e.acct = gb.owners[e.task]

\* C33 witness: a finished batch with fewer workers than accounts, whose first
\* worker belongs to another account than the first of the store and has a
\* logged failure
C33_Witness ==
    /\ gb.pc = "done"
    /\ Len(gb.owners) < NumAccounts
    /\ \E e \in gb.log : e.task = 1 /\ gb.owners[1] # SortedSeq(Accounts)[1]

\* the accounts a scheduled post is meant for: every account of the store for
\* the fb_id "all", the named accounts otherwise
TargetAccounts(target) == IF target = {AllKey} THEN Accounts ELSE target

\* C34: when the scheduler dispatches a due post and the batch is prepared
\* without a failure and without a stop, workers are created for every account
\* of the store if the post's target is "all", and for exactly the named
\* accounts otherwise
C34_RunsForTargetAccounts ==
    [][(/\ sch.pc = "iter" /\ sch.list # <<>> /\ ~stop_flag
        /\ \/ sch'.pc = "gather"
           \/ posts'[Head(sch.list)].status # posts[Head(sch.list)].status)
          => {tk'[t].acct : t \in {u \in Tasks : tk[u].kind = "free" /\ tk'[u].kind = "post"}}
                = TargetAccounts(posts[Head(sch.list)].target)]_vars

\* the scheduler with its stop and resume buttons and with scheduling requests
\* that add no row
NextLoop ==
    \/ ScheduleNoRow
    \/ NextSched

\* the event loop runs the scheduler coroutine whenever it can run, and time
\* passes
SpecLoopFair ==
    /\ Init /\ [][NextLoop]_vars
    /\ WF_vars(Tick)
    /\ WF_vars(SchedPoll)
    /\ WF_vars(SchedIter)
    /\ WF_vars(SchedHandler)
    /\ WF_vars(SchedGatherDone)
    /\ WF_vars(SchedCancelled)

\* C36: at most one scheduler polling loop is running: a polling loop is
\* created only while no earlier one is alive, whatever the sequence of
\* scheduling requests, stops and resumes
C36_OneSchedulerLoop ==
    [][(sch'.pc = "ready" /\ sch.pc # "ready") => sch.pc \in {"none", "ended"}]_vars

\* C36 witness: a loop that has been cancelled by a stop and is not done yet,
\* the state in which a scheduling request must not create a second loop
C36_Witness == sch.pc = "cancelling" /\ stop_flag

\* C37: a stop does not disable scheduling for good: the polling loop that a
\* scheduling request creates after a stop gets to poll the queue (or is
\* cancelled by another stop)
C37_LoopPollsAfterStop ==
    (stop_flag /\ sch.pc = "ready") ~> (sch.pc \in {"iter", "handler", "cancelling"})

\* the event loop runs every worker and the batch coroutine whenever they can
\* run
SpecMembersFair ==
    /\ SpecMembers
    /\ \A i \in Accounts : WF_vars(GraphWorker(i))
    /\ \A i \in Accounts : WF_vars(GraphWorkerPause(i))
    /\ WF_vars(AddMembersGatherDone)

\* C38: every group batch started on the event loop eventually completes:
\* setting up the sessions never leaves the event-loop thread waiting for a
\* coroutine that only this loop can run
C38_GroupBatchCompletes ==
    (gb.pc \in {"gather", "blocked"}) ~> (gb.pc = "done")

====
